---- MODULE Spec2Model ----
(***************************************************************************)
(* Model of the Fortigate IPsec VPN phase-2 tunnel check plugin            *)
(* (fortigate_ipsecvpn_tunnel.py): the SNMP section parser, the discovery  *)
(* function, the check function and the byte formatter it uses.            *)
(*                                                                         *)
(* Python integers are unbounded and the byte counters of interest reach   *)
(* 1024^5 = 2^50, which does not fit the model checker's machine integers. *)
(* An integer is therefore a record [neg, mag]: a sign and a magnitude     *)
(* held as a little-endian sequence of base-1024 limbs without a leading   *)
(* zero limb (<<>> is 0, <<0, 1>> is 1024, <<0, 0, 1>> is 1048576).        *)
(***************************************************************************)
EXTENDS Integers, Sequences, FiniteSets, TLC

VARIABLES
    string_table,   \* the SNMP rows handed to the parse function
    section,        \* what the parse function produced for this poll cycle
    services,       \* the items yielded by the discovery function
    item,           \* the item of the last check call
    result,         \* what the last check call yielded, and how it ended
    pc,             \* position in the poll cycle
    num_bytes,      \* argument of a direct human_readable_bytes call
    hb              \* what that call returned

vars == <<string_table, section, services, item, result, pc, num_bytes, hb>>

----------------------------------------------------------------------------
(* Bounds of the model *)

\* longest string_table of a poll cycle
MaxRows == 2

\* most base-1024 limbs of a byte count handed to human_readable_bytes
MaxLimbs == 6

----------------------------------------------------------------------------
(* Integers *)

\* the divisor and threshold 1024.0 of human_readable_bytes
Base == 1024

Zero == [neg |-> FALSE, mag |-> <<>>]

RECURSIVE MulAdd(_, _, _)
\* mag * m + c on magnitudes, for small m >= 1 and c >= 0
MulAdd(mag, m, c) ==
    IF mag = <<>>
    THEN IF c = 0 THEN <<>> ELSE <<c % Base>> \o MulAdd(<<>>, m, c \div Base)
    ELSE LET t == Head(mag) * m + c
         IN  <<t % Base>> \o MulAdd(Tail(mag), m, t \div Base)

RECURSIVE Norm(_)
\* drop leading (most significant) zero limbs
Norm(mag) ==
    IF mag # <<>> /\ mag[Len(mag)] = 0
    THEN Norm(SubSeq(mag, 1, Len(mag) - 1))
    ELSE mag

RECURSIVE MagLess(_, _)
\* a < b on magnitudes
MagLess(a, b) ==
    IF Len(a) # Len(b) THEN Len(a) < Len(b)
    ELSE IF a = <<>> THEN FALSE
    ELSE IF a[Len(a)] # b[Len(b)] THEN a[Len(a)] < b[Len(b)]
    ELSE MagLess(Norm(SubSeq(a, 1, Len(a) - 1)), Norm(SubSeq(b, 1, Len(b) - 1)))

RECURSIVE SubLimbs(_, _, _)
\* limb-wise a - b - borrow for a >= b, not normalised
SubLimbs(a, b, borrow) ==
    IF a = <<>> THEN <<>>
    ELSE LET bl == IF b = <<>> THEN 0 ELSE Head(b)
             t  == Head(a) - bl - borrow
         IN  <<(t + Base) % Base>>
             \o SubLimbs(Tail(a), IF b = <<>> THEN <<>> ELSE Tail(b),
                         IF t < 0 THEN 1 ELSE 0)

\* |a - b| on magnitudes
MagDiff(a, b) ==
    IF MagLess(a, b) THEN Norm(SubLimbs(b, a, 0)) ELSE Norm(SubLimbs(a, b, 0))

\* k zero limbs (none for k <= 0)
Zeros(k) == [i \in 1..(IF k > 0 THEN k ELSE 0) |-> 0]

\* mag * 1024^k
ShiftUp(mag, k) ==
    IF mag = <<>> THEN <<>> ELSE Zeros(k) \o mag

\* 1024^k
Pow1024(k) == ShiftUp(<<1>>, k)

\* a small natural number as an integer
SmallInt(n) == [neg |-> FALSE, mag |-> MulAdd(<<>>, 1, n)]

----------------------------------------------------------------------------
(* human_readable_bytes *)

\* the unit list the loop walks
Units == <<"bytes", "KB", "MB", "GB", "TB">>

\* the function fell off the end of its loop
None == [kind |-> "None"]

\* faulty variant of the comparison: `num_bytes <= 1024.0`
BelowThreshold_le(n, k) ==
    n.neg \/ Len(n.mag) <= k + 1 \/ n.mag = Pow1024(k + 1)

\* `num_bytes < 1024.0` after k divisions by 1024.0 of the integer n:
\* n / 1024^k < 1024. Every quotient the comparison can see is exact in
\* binary floating point (a division by a power of two), and the int to
\* float conversion is monotonic, so the comparison is that of the exact
\* values: n is negative, or its magnitude has at most k + 1 limbs.
BelowThreshold(n, k) == n.neg \/ Len(n.mag) <= k + 1

\* f"{x:.2f}" for x = n / 1024^k: the decimal with two fraction digits
\* nearest to x, ties to the even neighbour. The text is held as its sign
\* and its count of hundredths ("1.50" is 150 hundredths).
Format2f(n, k) ==
    LET p     == MulAdd(n.mag, 100, 0)
        pad   == p \o Zeros(k + 1 - Len(p))
        rem   == SubSeq(pad, 1, k)
        floor == Norm(SubSeq(pad, k + 1, Len(pad)))
        low0  == \A i \in 1..(k - 1) : rem[i] = 0
        odd   == floor # <<>> /\ floor[1] % 2 = 1
        up    == /\ k > 0
                 /\ \/ rem[k] > Base \div 2
                    \/ rem[k] = Base \div 2 /\ (~low0 \/ odd)
    IN  [neg |-> n.neg,
         hundredths |-> IF up THEN MulAdd(floor, 1, 1) ELSE floor]

\* f"{num_bytes:.2f} {unit}"
Rendered(n, k, unit) ==
    [kind |-> "str", number |-> Format2f(n, k), unit |-> unit]

RECURSIVE hrb_loop(_, _)
\* the for loop from its i-th unit on; n has been divided i - 1 times
hrb_loop(n, i) ==
    IF i > Len(Units) THEN None
    ELSE IF BelowThreshold(n, i - 1) THEN Rendered(n, i - 1, Units[i])
    ELSE hrb_loop(n, i + 1)

human_readable_bytes(n) == hrb_loop(n, 1)

----------------------------------------------------------------------------
(* int(text) *)

\* A text is a sequence of one-character strings.
Digits == {"0", "1", "2", "3", "4", "5", "6", "7", "8", "9"}

DigitVal ==
    ("0" :> 0) @@ ("1" :> 1) @@ ("2" :> 2) @@ ("3" :> 3) @@ ("4" :> 4) @@
    ("5" :> 5) @@ ("6" :> 6) @@ ("7" :> 7) @@ ("8" :> 8) @@ ("9" :> 9)

Whitespace == {" ", "\t", "\n"}

RECURSIVE LStrip(_)
LStrip(t) == IF t # <<>> /\ Head(t) \in Whitespace THEN LStrip(Tail(t)) ELSE t

RECURSIVE RStrip(_)
RStrip(t) ==
    IF t # <<>> /\ t[Len(t)] \in Whitespace
    THEN RStrip(SubSeq(t, 1, Len(t) - 1))
    ELSE t

\* the digits of a literal: at least one digit, single underscores only
\* between digits
IsDigitBody(b) ==
    /\ b # <<>>
    /\ \A i \in 1..Len(b) : b[i] \in Digits \cup {"_"}
    /\ b[1] \in Digits
    /\ b[Len(b)] \in Digits
    /\ \A i \in 1..(Len(b) - 1) : ~(b[i] = "_" /\ b[i + 1] = "_")

RECURSIVE DecimalMag(_, _)
\* the magnitude the digits of b denote, acc being that of the digits read
DecimalMag(b, acc) ==
    IF b = <<>> THEN acc
    ELSE IF Head(b) = "_" THEN DecimalMag(Tail(b), acc)
    ELSE DecimalMag(Tail(b), MulAdd(acc, 10, DigitVal[Head(b)]))

ValueError == [kind |-> "ValueError"]

\* int(text): surrounding whitespace is dropped, one sign is accepted, the
\* rest must be a digit body; anything else raises ValueError
PyInt(text) ==
    LET t      == RStrip(LStrip(text))
        signed == t # <<>> /\ Head(t) \in {"+", "-"}
        body   == IF signed THEN Tail(t) ELSE t
        mag    == DecimalMag(body, <<>>)
    IN  IF ~IsDigitBody(body) THEN ValueError
        ELSE [kind |-> "int",
              val  |-> [neg |-> signed /\ Head(t) = "-" /\ mag # <<>>,
                        mag |-> mag]]

----------------------------------------------------------------------------
(* parse_fortigate_vpn_tunnel *)

\* faulty variant of the assignment: parsed.setdefault(ph2_name, value),
\* which keeps the value of an existing key
DictSet_keepfirst(parsed, key, value) ==
    [k \in DOMAIN parsed \cup {key} |->
        IF k \in DOMAIN parsed THEN parsed[k] ELSE value]

\* parsed[ph2_name] = value: a new key is added, an existing key is
\* overwritten
DictSet(parsed, key, value) ==
    [k \in DOMAIN parsed \cup {key} |-> IF k = key THEN value ELSE parsed[k]]

\* the dictionary built for one row, or the ValueError of its first int()
\* that fails
RowRecord(row) ==
    LET ph2_in  == PyInt(row[2])
        ph2_out == PyInt(row[3])
    IN  IF ph2_in.kind # "int" THEN ph2_in
        ELSE IF ph2_out.kind # "int" THEN ph2_out
        ELSE [kind |-> "dict",
              rec  |-> [in |-> ph2_in.val, out |-> ph2_out.val, state |-> row[4]]]

RECURSIVE parse_loop_skip(_, _)
\* faulty variant of the loop: a row whose int() fails is skipped
parse_loop_skip(rows, parsed) ==
    IF rows = <<>> THEN [kind |-> "dict", dict |-> parsed]
    ELSE LET r == RowRecord(Head(rows))
         IN  IF r.kind # "dict" THEN parse_loop_skip(Tail(rows), parsed)
             ELSE parse_loop_skip(Tail(rows),
                                  DictSet(parsed, Head(rows)[1], r.rec))

RECURSIVE parse_loop(_, _)
\* the for loop over the rows not yet read; an exception leaves the loop
\* and the function without a return value
parse_loop(rows, parsed) ==
    IF rows = <<>> THEN [kind |-> "dict", dict |-> parsed]
    ELSE LET r == RowRecord(Head(rows))
         IN  IF r.kind # "dict" THEN r
             ELSE parse_loop(Tail(rows), DictSet(parsed, Head(rows)[1], r.rec))

parse_fortigate_vpn_tunnel(table) == parse_loop(table, <<>>)

----------------------------------------------------------------------------
(* discover_fortigate_vpn_tunnel *)

\* one Service per key of the section
discover_fortigate_vpn_tunnel(dict) == DOMAIN dict

----------------------------------------------------------------------------
(* check_fortigate_vpn_tunnel *)

\* fortigate_ipsecvpn_tunnel_ent_status_map
fortigate_ipsecvpn_tunnel_ent_status_map == ("1" :> "down") @@ ("2" :> "up")

KeyError == [kind |-> "KeyError"]

\* faulty variant of the lookup: .get(code, "unknown") in place of the
\* subscript
StatusLookup_get(code) ==
    IF code \in DOMAIN fortigate_ipsecvpn_tunnel_ent_status_map
    THEN [kind |-> "str", label |-> fortigate_ipsecvpn_tunnel_ent_status_map[code]]
    ELSE [kind |-> "str", label |-> "unknown"]

\* fortigate_ipsecvpn_tunnel_ent_status_map[code]: a subscript, which
\* raises KeyError for a code that is no key
StatusLookup(code) ==
    IF code \in DOMAIN fortigate_ipsecvpn_tunnel_ent_status_map
    THEN [kind |-> "str", label |-> fortigate_ipsecvpn_tunnel_ent_status_map[code]]
    ELSE KeyError

\* faulty variant of state_map: the two states exchanged
StateOf_swapped(label) ==
    IF label = "up" THEN "CRIT"
    ELSE IF label = "down" THEN "OK"
    ELSE "UNKNOWN"

\* state_map.get(label, State.UNKNOWN)
StateOf(label) ==
    IF label = "up" THEN "OK"
    ELSE IF label = "down" THEN "CRIT"
    ELSE "UNKNOWN"

\* section.get(item): the record, or None
SectionGet(dict, key) == IF key \in DOMAIN dict THEN dict[key] ELSE None

\* `not data`: None is false; a record of the parser has three keys and is
\* true
IsFalsy(data) == data = None

\* faulty variant of the missing-item Result: State.UNKNOWN
MissingResult_unknown(key) ==
    [type    |-> "Result",
     state   |-> "UNKNOWN",
     summary |-> <<"Tunnel '", key, "' is missing">>]

\* Result(state=State.CRIT, summary=f"Tunnel '{item}' is missing")
MissingResult(key) ==
    [type    |-> "Result",
     state   |-> "CRIT",
     summary |-> <<"Tunnel '", key, "' is missing">>]

\* Result(state=state, summary=f"Status: {label}, In: {...}, Out: {...}")
StatusResult(state, label, data) ==
    [type    |-> "Result",
     state   |-> state,
     summary |-> <<"Status: ", label,
                   ", In: ", human_readable_bytes(data.in),
                   ", Out: ", human_readable_bytes(data.out)>>]

\* faulty variant of the metrics: the two counters exchanged
Metrics_swapped(data) ==
    << [type |-> "Metric", name |-> "in_octets",  value |-> data.out],
       [type |-> "Metric", name |-> "out_octets", value |-> data.in] >>

\* Metric("in_octets", ph2_in), Metric("out_octets", ph2_out)
Metrics(data) ==
    << [type |-> "Metric", name |-> "in_octets",  value |-> data.in],
       [type |-> "Metric", name |-> "out_octets", value |-> data.out] >>

\* The generator run to its end by its consumer: what it yielded, and the
\* exception that ended it ("none" for a normal end).
check_fortigate_vpn_tunnel(key, dict) ==
    LET data   == SectionGet(dict, key)
        lookup == StatusLookup(data.state)
    IN  IF IsFalsy(data)
        THEN [raised |-> "none", yielded |-> <<MissingResult(key)>>]
        ELSE IF lookup.kind # "str"
        THEN [raised |-> lookup.kind, yielded |-> <<>>]
        ELSE [raised  |-> "none",
              yielded |-> <<StatusResult(StateOf(lookup.label), lookup.label, data)>>
                          \o Metrics(data)]

----------------------------------------------------------------------------
(* Inputs of a poll cycle *)

\* tunnel names a device reports
Names == {"a", "b"}

\* items checked: the reported names and one name no poll reports (a
\* service discovered in an earlier cycle)
Items == Names \cup {"c"}

\* status codes a device reports: the two documented ones and another
StatusCodes == {"1", "2", "3"}

\* the (inbound, outbound) counter texts of a row
CounterTexts ==
    { << <<"2", "0", "4", "8">>, <<"1", "5", "3", "6">> >>,
      << <<"1", "5", "3", "7">>, <<"-", "5">> >>,
      << <<"1", "1", "2", "5", "8", "9", "9", "9", "0", "6", "8", "4", "2", "6", "2", "4">>,
         <<"1", "0", "2", "3">> >>,
      << <<" ", "+", "1", "_", "0", " ">>, <<"0">> >>,
      << <<"x">>, <<"0">> >>,
      << <<"7">>, <<>> >> }

\* the rows a poll can deliver: name, inbound, outbound, status
Rows ==
    { <<n, c[1], c[2], st>> : n \in Names, c \in CounterTexts, st \in StatusCodes }

\* limbs the byte counts handed to human_readable_bytes are built from
LimbSamples == {0, 1, 128, 384, 1023}

ByteCounts ==
    { [neg |-> s, mag |-> m] :
        s \in BOOLEAN,
        m \in { q \in UNION { [1..n -> LimbSamples] : n \in 0..MaxLimbs } :
                  q = <<>> \/ q[Len(q)] # 0 } } \ { [neg |-> TRUE, mag |-> <<>>] }

----------------------------------------------------------------------------
(* The poll cycle: fetch, parse, discover, check *)

Unparsed == [kind |-> "unparsed"]

NoResult == [raised |-> "none", yielded |-> <<>>]

Init ==
    /\ string_table = <<>>
    /\ section = Unparsed
    /\ services = {}
    /\ item = ""
    /\ result = NoResult
    /\ pc = "fetching"
    /\ num_bytes = Zero
    /\ hb = None

\* the SNMP fetch of the section delivers the next row of the table
Fetch(row) ==
    /\ pc = "fetching"
    /\ Len(string_table) < MaxRows
    /\ string_table' = Append(string_table, row)
    /\ UNCHANGED <<section, services, item, result, pc, num_bytes, hb>>

\* the section's parse function runs once on the fetched table
Parse ==
    /\ pc = "fetching"
    /\ section' = parse_fortigate_vpn_tunnel(string_table)
    /\ pc' = IF section'.kind = "dict" THEN "parsed" ELSE "parse_failed"
    /\ UNCHANGED <<string_table, services, item, result, num_bytes, hb>>

\* the discovery function runs on the parsed section
Discover ==
    /\ pc = "parsed"
    /\ services' = discover_fortigate_vpn_tunnel(section.dict)
    /\ pc' = "discovered"
    /\ UNCHANGED <<string_table, section, item, result, num_bytes, hb>>

\* the check function runs for one item on the parsed section
Check(i) ==
    /\ pc \in {"discovered", "checked"}
    /\ item' = i
    /\ result' = check_fortigate_vpn_tunnel(i, section.dict)
    /\ pc' = "checked"
    /\ UNCHANGED <<string_table, section, services, num_bytes, hb>>

Next ==
    \/ \E row \in Rows : Fetch(row)
    \/ Parse
    \/ Discover
    \/ \E i \in Items : Check(i)

Spec == Init /\ [][Next]_vars

----------------------------------------------------------------------------
(* human_readable_bytes on its own *)

InitFormat ==
    /\ num_bytes \in ByteCounts
    /\ hb = [kind |-> "pending"]
    /\ pc = "call"
    /\ string_table = <<>>
    /\ section = Unparsed
    /\ services = {}
    /\ item = ""
    /\ result = NoResult

Format ==
    /\ pc = "call"
    /\ hb' = human_readable_bytes(num_bytes)
    /\ pc' = "returned"
    /\ UNCHANGED <<string_table, section, services, item, result, num_bytes>>

NextFormat == Format

SpecFormat == InitFormat /\ [][NextFormat]_vars

----------------------------------------------------------------------------
(* Properties of the check function *)

\* the check function has run on a snapshot
Checked == pc = "checked"

\* the checked item is a key of the snapshot
Present == item \in DOMAIN section.dict

\* the Results and the Metrics the last check yielded, in order
YieldedOf(type) == SelectSeq(result.yielded, LAMBDA y : y.type = type)

\* C1: a check of an item that is no key of the snapshot ends normally
\* with exactly one Result, CRIT with the summary "Tunnel '<item>' is
\* missing", and with no Metric.
C1_MissingIsCritical ==
    (Checked /\ ~Present) =>
        /\ result.raised = "none"
        /\ Len(result.yielded) = 1
        /\ result.yielded[1].type = "Result"
        /\ result.yielded[1].state = "CRIT"
        /\ result.yielded[1].summary = <<"Tunnel '", item, "' is missing">>
        /\ YieldedOf("Metric") = <<>>

\* C1 happens: an item missing from a snapshot that holds another tunnel
C1_Witness ==
    /\ Checked
    /\ ~Present
    /\ item = "a"
    /\ DOMAIN section.dict = {"b"}
    /\ Len(result.yielded) = 1

\* C2: for a present item the verdict is OK when the status code is "2"
\* (label "up") and CRIT when it is "1" (label "down"), whatever the two
\* counters are.
C2_VerdictFromStatus ==
    (Checked /\ Present) =>
        LET code == section.dict[item].state
        IN  /\ code = "2" =>
                /\ YieldedOf("Result") # <<>>
                /\ \A i \in 1..Len(YieldedOf("Result")) :
                       /\ YieldedOf("Result")[i].state = "OK"
                       /\ YieldedOf("Result")[i].summary[2] = "up"
            /\ code = "1" =>
                /\ YieldedOf("Result") # <<>>
                /\ \A i \in 1..Len(YieldedOf("Result")) :
                       /\ YieldedOf("Result")[i].state = "CRIT"
                       /\ YieldedOf("Result")[i].summary[2] = "down"

\* C2 happens: an up tunnel whose inbound counter is 1024^5 and a down
\* tunnel whose outbound counter is negative are in one snapshot, and the
\* up one is checked
C2_Witness ==
    /\ Checked
    /\ Present
    /\ section.dict[item].state = "2"
    /\ section.dict[item].in.mag = Pow1024(5)
    /\ \E k \in DOMAIN section.dict :
           section.dict[k].state = "1" /\ section.dict[k].out.neg
    /\ YieldedOf("Result")[1].state = "OK"

\* C3: every check of a present item yields both metrics, and a check
\* that yields no metric is a check of a missing item.
C3_PresentEmitsMetrics ==
    Checked =>
        LET names == { YieldedOf("Metric")[i].name :
                         i \in 1..Len(YieldedOf("Metric")) }
        IN  /\ Present => {"in_octets", "out_octets"} \subseteq names
            /\ names = {} => ~Present

\* C4: a check of a present item whose status code is no key of the
\* status map ends with the KeyError of the lookup, having yielded no
\* Result (so no verdict and no summary) and no Metric.
C4_UnknownStatusIsFatal ==
    (Checked /\ Present
        /\ section.dict[item].state \notin {"1", "2"}) =>
            /\ result.raised = "KeyError"
            /\ result.yielded = <<>>

\* C4 happens: a present tunnel with status code "3" has been checked
C4_Witness ==
    /\ Checked
    /\ Present
    /\ section.dict[item].state = "3"
    /\ result.raised # "none"

\* C6: a check that yields metrics yields exactly two, in_octets and
\* out_octets, whose values are the integer counters of the item's
\* record in the snapshot.
C6_MetricsAreRawCounters ==
    (Checked /\ YieldedOf("Metric") # <<>>) =>
        /\ Present
        /\ Len(YieldedOf("Metric")) = 2
        /\ YieldedOf("Metric")[1].name = "in_octets"
        /\ YieldedOf("Metric")[1].value = section.dict[item].in
        /\ YieldedOf("Metric")[2].name = "out_octets"
        /\ YieldedOf("Metric")[2].value = section.dict[item].out

\* C6 happens: the inbound counter is 1537, which the summary renders
\* as 1.50 KB, and the metric still carries 1537
C6_Witness ==
    /\ Checked
    /\ Present
    /\ section.dict[item].in.mag = <<513, 1>>
    /\ section.dict[item].in # section.dict[item].out
    /\ YieldedOf("Result")[1].summary[4].number.hundredths = <<150>>
    /\ Len(YieldedOf("Metric")) = 2

----------------------------------------------------------------------------
(* Properties of the parse function *)

\* the parse function has run
ParseDone == pc # "fetching"

\* both byte fields of the row are integer text
WellFormed(row) == PyInt(row[2]).kind = "int" /\ PyInt(row[3]).kind = "int"

\* the index of the last row of the table that carries the name
LastIndex(name) ==
    CHOOSE i \in 1..Len(string_table) :
        /\ string_table[i][1] = name
        /\ \A j \in (i + 1)..Len(string_table) : string_table[j][1] # name

\* C7: for a table of well-formed rows the parse function returns a
\* snapshot whose keys are exactly the names in the table, each key with
\* the counters and the status of the last row of that name.
C7_LastRowWins ==
    (ParseDone /\ \A i \in 1..Len(string_table) : WellFormed(string_table[i])) =>
        /\ section.kind = "dict"
        /\ DOMAIN section.dict =
               { string_table[i][1] : i \in 1..Len(string_table) }
        /\ \A name \in DOMAIN section.dict :
               LET row == string_table[LastIndex(name)]
               IN  /\ section.dict[name].in = PyInt(row[2]).val
                   /\ section.dict[name].out = PyInt(row[3]).val
                   /\ section.dict[name].state = row[4]

\* C7 happens: two rows of one name that differ in every field have been
\* parsed
C7_Witness ==
    /\ ParseDone
    /\ section.kind = "dict"
    /\ Len(string_table) = 2
    /\ string_table[1][1] = string_table[2][1]
    /\ PyInt(string_table[1][2]).val # PyInt(string_table[2][2]).val
    /\ PyInt(string_table[1][3]).val # PyInt(string_table[2][3]).val
    /\ string_table[1][4] # string_table[2][4]

\* C8: when any row of the table has a byte field that is not integer
\* text, the parse function ends with an exception and returns no
\* snapshot, wherever the row is.
C8_MalformedFieldIsFatal ==
    (ParseDone /\ \E i \in 1..Len(string_table) : ~WellFormed(string_table[i])) =>
        /\ section.kind = "ValueError"
        /\ pc = "parse_failed"

\* C8 happens: the malformed row is the last one, after a well-formed row
\* of another name
C8_Witness ==
    /\ pc = "parse_failed"
    /\ Len(string_table) = 2
    /\ WellFormed(string_table[1])
    /\ ~WellFormed(string_table[2])
    /\ string_table[1][1] # string_table[2][1]

\* C9: every record of every snapshot the parse function returns has a
\* non-negative inbound and a non-negative outbound counter, also when a
\* byte field is integer text with a leading minus sign.
C9_CountersNonNegative ==
    (ParseDone /\ section.kind = "dict") =>
        \A name \in DOMAIN section.dict :
            ~section.dict[name].in.neg /\ ~section.dict[name].out.neg

----------------------------------------------------------------------------
(* Properties of human_readable_bytes *)

Returned == pc = "returned"

\* the number of hundredths h is the value mag / 1024^k to two places:
\* |h * 1024^k - 100 * mag| * 2 <= 1024^k
IsValueOf(h, mag, k) ==
    ~MagLess(Pow1024(k),
             MulAdd(MagDiff(ShiftUp(h, k), MulAdd(mag, 100, 0)), 2, 0))

\* the index k of the unit the claim assigns to mag < 1024^5
UnitIndex(mag) ==
    CHOOSE k \in 0..4 :
        /\ MagLess(mag, Pow1024(k + 1))
        /\ k = 0 \/ ~MagLess(mag, Pow1024(k))

\* C5: for n >= 1024^5 the result is a rendering labelled TB whose value
\* is n / 1024^4.
C5_CappedAtTB ==
    (Returned /\ ~num_bytes.neg /\ ~MagLess(num_bytes.mag, Pow1024(5))) =>
        /\ hb.kind = "str"
        /\ hb.unit = "TB"
        /\ IsValueOf(hb.number.hundredths, num_bytes.mag, 4)

\* C10: for 0 <= n < 1024^5 the result is labelled with the k-th unit,
\* k being the one index with n < 1024^(k+1) and (k = 0 or n >= 1024^k),
\* and its value is n / 1024^k; 1023 is 1023.00 bytes, 1024 is 1.00 KB
\* and 1048576 is 1.00 MB.
C10_UnitAndValue ==
    (Returned /\ ~num_bytes.neg /\ MagLess(num_bytes.mag, Pow1024(5))) =>
        LET n == num_bytes.mag
            k == UnitIndex(n)
        IN  /\ \A j \in 0..4 :
                   (MagLess(n, Pow1024(j + 1)) /\ (j = 0 \/ ~MagLess(n, Pow1024(j))))
                       <=> j = k
            /\ hb.kind = "str"
            /\ hb.unit = Units[k + 1]
            /\ ~hb.number.neg
            /\ IsValueOf(hb.number.hundredths, n, k)
            /\ n = <<1023>> =>
                   hb.unit = "bytes" /\ hb.number.hundredths = SmallInt(102300).mag
            /\ n = <<0, 1>> =>
                   hb.unit = "KB" /\ hb.number.hundredths = <<100>>
            /\ n = <<0, 0, 1>> =>
                   hb.unit = "MB" /\ hb.number.hundredths = <<100>>

\* C10 happens: 1048576 has been rendered
C10_Witness ==
    /\ Returned
    /\ num_bytes = [neg |-> FALSE, mag |-> <<0, 0, 1>>]
    /\ hb.kind = "str"
    /\ hb.unit = "MB"

====
